---- MODULE Spec2Model ----
(* Model of the directed-graph library of Graph.hpp / Graph.tpp:           *)
(* adjacency-list graph objects with edgeIn / addEdge / removeEdge, copy   *)
(* construction and assignment, breadth-first and depth-first search.      *)
(*                                                                         *)
(* A behaviour is a client program: it constructs a graph, then calls the  *)
(* public operations one after another.  Every state records the graph     *)
(* objects and the last call with its outcome.                             *)
EXTENDS Integers, Sequences, FiniteSets

(* ---------------------------------------------------------------- bounds *)
MaxN == 3          \* largest vertex count handed to Graph(int n)
MaxEdges == 3      \* cap on the number of edges stored over all live graphs
MaxCopyN == 2      \* largest vertex count of a client that holds two graphs

INT_MAX == 2147483647

VARIABLES
    graphs,     \* sequence of live Graph objects; graphs[t] is the adjList of object t
    op,         \* name of the last member function called
    self,       \* index of the object it was called on (the this pointer)
    args,       \* its arguments
    outcome,    \* "ok" (returned), "throw" (exception left the call), "abort" (process died)
    what,       \* what() of the exception thrown, "" if none
    oob,        \* TRUE iff the call subscripted adjList with an index outside [0, size)
    ret,        \* value returned by edgeIn
    data        \* vector<TraversalData> returned by a traversal

vars == <<graphs, op, self, args, outcome, what, oob, ret, data>>

(* ------------------------------------------------------- adjacency lists *)
(* adjList is vector<vector<int>>: a function from 0..n-1 to sequences.    *)
Size(adj) == Cardinality(DOMAIN adj)

NewAdjList(n) == [i \in 0..(n - 1) |-> << >>]

CopyAdjList(adj) == [i \in DOMAIN adj |-> adj[i]]

VertexIn(adj, u) == u >= 0 /\ u < Size(adj)

(* the range-for of edgeIn: scan adjList[u] from the front for v *)
RECURSIVE ScanFor(_, _, _)
ScanFor(neighbors, v, i) ==
    IF i > Len(neighbors) THEN FALSE
    ELSE IF neighbors[i] = v THEN TRUE
    ELSE ScanFor(neighbors, v, i + 1)

EdgeInList(adj, u, v) == ScanFor(adj[u], v, 1)

(* faulty variant of AddEdgeList: push_back without the edgeIn test *)
AddEdgeNoCheck(adj, u, v) == [adj EXCEPT ![u] = Append(@, v)]

(* body of addEdge after the range check *)
AddEdgeList(adj, u, v) ==
    IF ~EdgeInList(adj, u, v) THEN [adj EXCEPT ![u] = Append(@, v)] ELSE adj

(* faulty variants of Erase: nothing is erased; the last element is moved *)
(* into the hole instead of shifting the tail down                      *)
EraseNothing(s, i) == s

EraseSwapLast(s, i) == [k \in 1..(Len(s) - 1) |-> IF k = i THEN s[Len(s)] ELSE s[k]]

(* vector::erase(begin() + i), i counted from 1 here *)
Erase(s, i) == [k \in 1..(Len(s) - 1) |-> IF k < i THEN s[k] ELSE s[k + 1]]

(* the for loop of removeEdge: i runs over the positions of neighbors; on *)
(* the first match the element is erased, found is set and i is moved to  *)
(* the end so that the loop stops.                                        *)
RECURSIVE RemoveLoop(_, _, _, _)
RemoveLoop(neighbors, v, i, found) ==
    IF i > Len(neighbors) THEN [neighbors |-> neighbors, found |-> found]
    ELSE IF neighbors[i] = v
         THEN LET erased == Erase(neighbors, i)
              IN RemoveLoop(erased, v, Len(erased) + 2, TRUE)
         ELSE RemoveLoop(neighbors, v, i + 1, found)

RemoveEdgeList(adj, u, v) == RemoveLoop(adj[u], v, 1, FALSE)

(* faulty variant of Store: one adjList shared by all objects (a static member) *)
StoreShared(gs, t, adj) == [k \in DOMAIN gs |-> adj]

(* every Graph object has its own adjList member (Graph.hpp line 25): a   *)
(* write through object t's member reaches no other object               *)
Store(gs, t, adj) == [gs EXCEPT ![t] = adj]

(* ------------------------------------------------------------ traversals *)
(* TraversalData: distance shares its storage with discovery (the union   *)
(* of Graph.hpp), so a record has one field for both.  vector<T>(n)       *)
(* value-initialises its elements.                                        *)
NewTraversalData(n) ==
    [i \in 0..(n - 1) |->
        [visited |-> FALSE, parent |-> 0, discovery |-> 0, finish |-> 0, order |-> 0]]

Distance(d) == d.discovery

(* the initialisation loop of breadthFirstSearch *)
BfsInit(n) ==
    [i \in 0..(n - 1) |->
        [NewTraversalData(n)[i] EXCEPT !.visited = FALSE, !.parent = -1,
                                       !.discovery = INT_MAX]]

(* marking the start vertex *)
BfsStart(d, s) == [d EXCEPT ![s].visited = TRUE, ![s].discovery = 0]

(* faulty variant of BfsDiscover: the distance of u is not incremented *)
BfsDiscoverSameLevel(d, u, v) ==
    [d EXCEPT ![v].visited = TRUE, ![v].parent = u, ![v].discovery = Distance(d[u])]

(* discovering neighbor v from u: lines 212-214 *)
BfsDiscover(d, u, v) ==
    [d EXCEPT ![v].visited = TRUE, ![v].parent = u, ![v].discovery = Distance(d[u]) + 1]

(* the range-for over adjList[u]; st = [d, q] *)
RECURSIVE BfsNeighbors(_, _, _, _)
BfsNeighbors(adj, st, u, i) ==
    IF i > Len(adj[u]) THEN st
    ELSE LET v == adj[u][i]
         IN IF ~st.d[v].visited
            THEN BfsNeighbors(adj, [d |-> BfsDiscover(st.d, u, v), q |-> Append(st.q, v)],
                              u, i + 1)
            ELSE BfsNeighbors(adj, st, u, i + 1)

(* the while loop over the queue *)
RECURSIVE BfsLoop(_, _)
BfsLoop(adj, st) ==
    IF st.q = << >> THEN st.d
    ELSE LET u == Head(st.q)
         IN BfsLoop(adj, BfsNeighbors(adj, [d |-> st.d, q |-> Tail(st.q)], u, 1))

BfsData(adj, s) == BfsLoop(adj, [d |-> BfsStart(BfsInit(Size(adj)), s), q |-> <<s>>])

(* the initialisation loop of depthFirstSearch *)
DfsInit(n) ==
    [i \in 0..(n - 1) |-> [NewTraversalData(n)[i] EXCEPT !.visited = FALSE, !.parent = -1]]

(* faulty variant of DfsDiscover: the discovery does not advance time *)
DfsDiscoverNoTick(st, u) ==
    [st EXCEPT !.d[u].visited = TRUE, !.d[u].discovery = st.time]

(* dfsVisit lines 274-275; st = [d, time, order] *)
DfsDiscover(st, u) ==
    [st EXCEPT !.d[u].visited = TRUE, !.d[u].discovery = st.time + 1, !.time = st.time + 1]

(* faulty variants of DfsFinish: labels count up; time is not advanced; *)
(* order is not decremented                                            *)
DfsFinishCountUp(st, u) ==
    [st EXCEPT !.d[u].finish = st.time + 1, !.d[u].order = Cardinality(DOMAIN st.d) + 1 - st.order,
               !.time = st.time + 1, !.order = st.order - 1]

DfsFinishNoTick(st, u) ==
    [st EXCEPT !.d[u].finish = st.time, !.d[u].order = st.order, !.order = st.order - 1]

DfsFinishNoDecrement(st, u) ==
    [st EXCEPT !.d[u].finish = st.time + 1, !.d[u].order = st.order, !.time = st.time + 1]

(* dfsVisit lines 285-286 *)
DfsFinish(st, u) ==
    [st EXCEPT !.d[u].finish = st.time + 1, !.d[u].order = st.order,
               !.time = st.time + 1, !.order = st.order - 1]

RECURSIVE DfsVisit(_, _, _), DfsNeighbors(_, _, _, _)
DfsVisit(adj, st, u) == DfsFinish(DfsNeighbors(adj, DfsDiscover(st, u), u, 1), u)

(* the range-for over adjList[u] in dfsVisit *)
DfsNeighbors(adj, st, u, i) ==
    IF i > Len(adj[u]) THEN st
    ELSE LET v == adj[u][i]
         IN IF ~st.d[v].visited
            THEN DfsNeighbors(adj, DfsVisit(adj, [st EXCEPT !.d[v].parent = u], v), u, i + 1)
            ELSE DfsNeighbors(adj, st, u, i + 1)

(* the for loop over the vertices in depthFirstSearch *)
RECURSIVE DfsRoots(_, _, _)
DfsRoots(adj, st, u) ==
    IF u >= Size(adj) THEN st
    ELSE IF ~st.d[u].visited THEN DfsRoots(adj, DfsVisit(adj, st, u), u + 1)
    ELSE DfsRoots(adj, st, u + 1)

DfsData(adj) ==
    DfsRoots(adj, [d |-> DfsInit(Size(adj)), time |-> 0, order |-> Size(adj)], 0).d

(* ------------------------------------------------------------ the client *)
Vertices(adj) == 0..(Size(adj) - 1)  \* arguments of a client that respects the range
Inputs(adj) == (-1)..Size(adj)       \* arguments of a client that may leave it

RECURSIVE Degrees(_, _)
Degrees(adj, i) == IF i < 0 THEN 0 ELSE Len(adj[i]) + Degrees(adj, i - 1)

RECURSIVE EdgesOf(_, _)
EdgesOf(gs, t) ==
    IF t = 0 THEN 0 ELSE Degrees(gs[t], Size(gs[t]) - 1) + EdgesOf(gs, t - 1)

TotalEdges == EdgesOf(graphs, Len(graphs))

Running == outcome # "abort"

(* Graph g(n) *)
Constructed(n) ==
    /\ graphs = << NewAdjList(n) >>
    /\ op = "Graph"
    /\ self = 1
    /\ args = << >>
    /\ outcome = "ok"
    /\ what = ""
    /\ oob = FALSE
    /\ ret = FALSE
    /\ data = << >>

Init == \E n \in 0..MaxN : Constructed(n)

InitCopy == \E n \in 0..MaxCopyN : Constructed(n)

(* bool Graph::edgeIn(int u, int v) *)
EdgeIn(t, u, v) ==
    /\ Running
    /\ op' = "edgeIn" /\ self' = t /\ args' = <<u, v>>
    /\ oob' = FALSE
    /\ data' = << >>
    /\ UNCHANGED graphs
    /\ IF ~VertexIn(graphs[t], u) \/ ~VertexIn(graphs[t], v)
       THEN /\ outcome' = "throw"
            /\ what' = "edgeIn: vertex index out of range"
            /\ ret' = FALSE
       ELSE /\ outcome' = "ok"
            /\ what' = ""
            /\ ret' = EdgeInList(graphs[t], u, v)

(* void Graph::addEdge(int u, int v) *)
AddEdge(t, u, v) ==
    /\ Running
    /\ op' = "addEdge" /\ self' = t /\ args' = <<u, v>>
    /\ oob' = FALSE
    /\ data' = << >>
    /\ ret' = FALSE
    /\ IF ~VertexIn(graphs[t], u) \/ ~VertexIn(graphs[t], v)
       THEN /\ outcome' = "throw"
            /\ what' = "addEdge: vertex index out of range"
            /\ UNCHANGED graphs
       ELSE /\ AddEdgeList(graphs[t], u, v) # graphs[t] => TotalEdges < MaxEdges
            /\ outcome' = "ok"
            /\ what' = ""
            /\ graphs' = Store(graphs, t, AddEdgeList(graphs[t], u, v))

(* void Graph::removeEdge(int u, int v): the reference to adjList[u] is   *)
(* taken on line 143, before the range check of line 144.  With u outside *)
(* [0, size) that subscript is undefined behaviour: an unchecked vector   *)
(* only forms the address and the check then throws, a checked one        *)
(* (_GLIBCXX_ASSERTIONS, debug iterators) aborts the process.             *)
RemoveEdge(t, u, v) ==
    /\ Running
    /\ op' = "removeEdge" /\ self' = t /\ args' = <<u, v>>
    /\ oob' = ~VertexIn(graphs[t], u)
    /\ data' = << >>
    /\ ret' = FALSE
    /\ IF ~VertexIn(graphs[t], u)
       THEN /\ UNCHANGED graphs
            /\ \/ outcome' = "throw" /\ what' = "addEdge: vertex index out of range"
               \/ outcome' = "abort" /\ what' = ""
       ELSE IF ~VertexIn(graphs[t], v)
       THEN /\ UNCHANGED graphs
            /\ outcome' = "throw"
            /\ what' = "addEdge: vertex index out of range"
       ELSE LET r == RemoveEdgeList(graphs[t], u, v)
            IN /\ graphs' = Store(graphs, t, [graphs[t] EXCEPT ![u] = r.neighbors])
               /\ IF ~r.found
                  THEN outcome' = "throw" /\ what' = "removeEdge: edge does not exist"
                  ELSE outcome' = "ok" /\ what' = ""

(* std::vector<TraversalData> Graph::breadthFirstSearch(int s) *)
BreadthFirstSearch(t, s) ==
    /\ Running
    /\ op' = "breadthFirstSearch" /\ self' = t /\ args' = <<s>>
    /\ oob' = FALSE
    /\ ret' = FALSE
    /\ UNCHANGED graphs
    /\ IF ~VertexIn(graphs[t], s)
       THEN /\ outcome' = "throw"
            /\ what' = "BFS: source not in graph"
            /\ data' = << >>
       ELSE /\ outcome' = "ok"
            /\ what' = ""
            /\ data' = BfsData(graphs[t], s)

(* std::vector<TraversalData> Graph::depthFirstSearch() *)
DepthFirstSearch(t) ==
    /\ Running
    /\ op' = "depthFirstSearch" /\ self' = t /\ args' = << >>
    /\ oob' = FALSE
    /\ ret' = FALSE
    /\ UNCHANGED graphs
    /\ outcome' = "ok"
    /\ what' = ""
    /\ data' = DfsData(graphs[t])

(* Graph other(n): a second object *)
Construct(n) ==
    /\ Running
    /\ Len(graphs) = 1
    /\ graphs' = Append(graphs, NewAdjList(n))
    /\ op' = "Graph" /\ self' = 2 /\ args' = <<n>>
    /\ outcome' = "ok" /\ what' = ""
    /\ oob' = FALSE /\ ret' = FALSE /\ data' = << >>

(* Graph copy(g): the copy constructor builds a second object from graphs[1] *)
CopyConstruct ==
    /\ Running
    /\ Len(graphs) = 1
    /\ 2 * TotalEdges <= MaxEdges
    /\ graphs' = Append(graphs, CopyAdjList(graphs[1]))
    /\ op' = "Graph(const Graph&)" /\ self' = 2 /\ args' = <<1>>
    /\ outcome' = "ok" /\ what' = ""
    /\ oob' = FALSE /\ ret' = FALSE /\ data' = << >>

(* Graph& Graph::operator=(const Graph &g), called on object t with g = object src *)
AssignedList(this, g, same) == IF ~same THEN CopyAdjList(g) ELSE this

Assign(t, src) ==
    /\ Running
    /\ LET new == Store(graphs, t, AssignedList(graphs[t], graphs[src], t = src))
       IN /\ EdgesOf(new, Len(new)) <= MaxEdges
          /\ graphs' = new
    /\ op' = "operator=" /\ self' = t /\ args' = <<src>>
    /\ outcome' = "ok" /\ what' = ""
    /\ oob' = FALSE /\ ret' = FALSE /\ data' = << >>

(* a client that keeps every vertex argument in range *)
Next ==
    \/ \E t \in 1..Len(graphs) : \E u, v \in Vertices(graphs[t]) : EdgeIn(t, u, v)
    \/ \E t \in 1..Len(graphs) : \E u, v \in Vertices(graphs[t]) : AddEdge(t, u, v)
    \/ \E t \in 1..Len(graphs) : \E u, v \in Vertices(graphs[t]) : RemoveEdge(t, u, v)
    \/ \E t \in 1..Len(graphs) : \E s \in Vertices(graphs[t]) : BreadthFirstSearch(t, s)
    \/ \E t \in 1..Len(graphs) : DepthFirstSearch(t)

Spec == Init /\ [][Next]_vars

(* a client that builds a graph and passes vertex arguments outside [0, n) *)
BadPair(adj, u, v) == ~VertexIn(adj, u) \/ ~VertexIn(adj, v)

NextRange ==
    \/ \E t \in 1..Len(graphs) : \E u, v \in Vertices(graphs[t]) : AddEdge(t, u, v)
    \/ \E t \in 1..Len(graphs) : \E u, v \in Inputs(graphs[t]) :
          BadPair(graphs[t], u, v) /\ EdgeIn(t, u, v)
    \/ \E t \in 1..Len(graphs) : \E u, v \in Inputs(graphs[t]) :
          BadPair(graphs[t], u, v) /\ AddEdge(t, u, v)
    \/ \E t \in 1..Len(graphs) : \E u, v \in Inputs(graphs[t]) :
          BadPair(graphs[t], u, v) /\ RemoveEdge(t, u, v)
    \/ \E t \in 1..Len(graphs) : \E s \in Inputs(graphs[t]) :
          ~VertexIn(graphs[t], s) /\ BreadthFirstSearch(t, s)

SpecRange == Init /\ [][NextRange]_vars

(* a client that holds two graphs: g and a copy or a second graph *)
NextCopy ==
    \/ \E t \in 1..Len(graphs) : \E u, v \in Vertices(graphs[t]) : AddEdge(t, u, v)
    \/ \E t \in 1..Len(graphs) : \E u, v \in Vertices(graphs[t]) : RemoveEdge(t, u, v)
    \/ \E n \in 0..MaxCopyN : Construct(n)
    \/ CopyConstruct
    \/ \E t, src \in 1..Len(graphs) : Assign(t, src)

SpecCopy == InitCopy /\ [][NextCopy]_vars

(* ---------------------------------------------------------------- claims *)
RangeError ==
    /\ outcome = "throw"
    /\ what \in {"edgeIn: vertex index out of range", "addEdge: vertex index out of range",
                 "BFS: source not in graph"}

EdgeNotFound == outcome = "throw" /\ what = "removeEdge: edge does not exist"

(* C1: after addEdge(u,v) edgeIn(u,v) is true; addEdge(u,v) on a graph that
   already has (u,v) leaves the whole adjacency structure unchanged; no
   neighbor list ever holds the same vertex twice. *)
NoDuplicates ==
    \A t \in 1..Len(graphs) : \A i \in DOMAIN graphs[t] :
        \A j, k \in 1..Len(graphs[t][i]) : graphs[t][i][j] = graphs[t][i][k] => j = k

AddEdgeIdempotent ==
    /\ [](NoDuplicates
          /\ (op = "addEdge" /\ outcome = "ok" => EdgeInList(graphs[self], args[1], args[2])))
    /\ [][(op' = "addEdge" /\ outcome' = "ok"
            /\ EdgeInList(graphs[self'], args'[1], args'[2])) => graphs' = graphs]_vars

AddEdgeWitness ==
    /\ op = "addEdge" /\ outcome = "ok"
    /\ Len(graphs[self][args[1]]) >= 2
    /\ graphs[self][args[1]][1] = args[2]

(* C2: removeEdge(u,v) of a present edge returns and edgeIn(u,v) is false
   afterwards; removeEdge(u,v) of an absent edge raises the edge-not-found
   error and leaves the adjacency structure unchanged. *)
RemoveEdgeContract ==
    /\ [](op = "removeEdge" /\ outcome = "ok"
            => ~EdgeInList(graphs[self], args[1], args[2]))
    /\ [][(op' = "removeEdge" /\ ~BadPair(graphs[self'], args'[1], args'[2]))
            => IF EdgeInList(graphs[self'], args'[1], args'[2])
               THEN outcome' = "ok" /\ ~EdgeInList(graphs'[self'], args'[1], args'[2])
               ELSE EdgeNotFound' /\ graphs' = graphs]_vars

RemoveEdgeWitness ==
    /\ op = "removeEdge" /\ EdgeNotFound
    /\ Len(graphs[self][args[1]]) >= 1

(* C3: edgeIn, addEdge, removeEdge and breadthFirstSearch raise the
   out-of-range error whenever a vertex argument is < 0 or >= n, and the
   adjacency structure is unchanged after the failed call. *)
BadArgs(adj, a) == \E k \in 1..Len(a) : ~VertexIn(adj, a[k])

RangeChecked == {"edgeIn", "addEdge", "removeEdge", "breadthFirstSearch"}

OutOfRangeRaised ==
    /\ []((op \in RangeChecked /\ BadArgs(graphs[self], args)) => RangeError)
    /\ [][(op' \in RangeChecked /\ BadArgs(graphs[self'], args')) => graphs' = graphs]_vars

(* C4: removeEdge validates both endpoints before any access to the
   adjacency list: adjList is never subscripted outside [0, n). *)
ValidatedBeforeAccess == op = "removeEdge" => ~oob

(* C5: a graph built by the copy constructor or by assignment has exactly
   the source's adjacency lists; addEdge/removeEdge on one object leave the
   other object unchanged; self-assignment leaves the graph unchanged. *)
CopyIndependence ==
    /\ [](op = "Graph(const Graph&)" => graphs[2] = graphs[1])
    /\ [](op = "operator=" => graphs[self] = graphs[args[1]])
    /\ [][op' = "operator=" =>
            /\ graphs'[args'[1]] = graphs[args'[1]]
            /\ \A k \in 1..Len(graphs) : k # self' => graphs'[k] = graphs[k]]_vars
    /\ [][op' \in {"addEdge", "removeEdge"} =>
            /\ Len(graphs') = Len(graphs)
            /\ \A k \in 1..Len(graphs) : k # self' => graphs'[k] = graphs[k]]_vars

CopyWitness ==
    /\ Len(graphs) = 2
    /\ op = "addEdge" /\ outcome = "ok"
    /\ Size(graphs[1]) = Size(graphs[2])
    /\ Degrees(graphs[3 - self], Size(graphs[3 - self]) - 1) >= 1
    /\ ~EdgeInList(graphs[3 - self], args[1], args[2])
    /\ graphs[self] = AddEdgeNoCheck(graphs[3 - self], args[1], args[2])

(* reachability and shortest distances, by rounds of edge relaxation *)
Successors(adj, W) == {v \in DOMAIN adj : \E u \in W : \E k \in 1..Len(adj[u]) : adj[u][k] = v}

RECURSIVE Within(_, _, _)
Within(adj, s, k) ==
    IF k = 0 THEN {s}
    ELSE LET W == Within(adj, s, k - 1) IN W \cup Successors(adj, W)

Reachable(adj, s) == Within(adj, s, Size(adj))

ShortestPath(adj, s, v) ==
    CHOOSE k \in 0..Size(adj) :
        /\ v \in Within(adj, s, k)
        /\ k > 0 => v \notin Within(adj, s, k - 1)

(* C6: breadthFirstSearch(s) returns one record per vertex; visited[v] is
   true exactly when v is reachable from s; distance[v] is the length of a
   shortest path for reachable v; an unreachable v keeps distance INT_MAX,
   parent -1 and visited false. *)
BfsCorrect ==
    (op = "breadthFirstSearch" /\ outcome = "ok") =>
        LET adj == graphs[self]
            s == args[1]
        IN /\ DOMAIN data = DOMAIN adj
           /\ \A v \in DOMAIN adj :
                IF v \in Reachable(adj, s)
                THEN data[v].visited /\ Distance(data[v]) = ShortestPath(adj, s, v)
                ELSE /\ ~data[v].visited
                     /\ Distance(data[v]) = INT_MAX
                     /\ data[v].parent = -1

BfsWitness ==
    /\ op = "breadthFirstSearch" /\ outcome = "ok"
    /\ TotalEdges = 3
    /\ \E v \in DOMAIN data : Distance(data[v]) = 2
    /\ \E v \in DOMAIN data : Len(graphs[self][v]) = 2

Edges(adj) ==
    {e \in (DOMAIN adj) \X (DOMAIN adj) : \E k \in 1..Len(adj[e[1]]) : adj[e[1]][k] = e[2]}

(* the vertices at the end of a path of one edge or more from v *)
Descendants(adj, v) == UNION {Reachable(adj, w) : w \in Successors(adj, {v})}

Acyclic(adj) == \A v \in DOMAIN adj : v \notin Descendants(adj, v)

DfsDone == op = "depthFirstSearch" /\ outcome = "ok"

(* C7: on an acyclic graph depthFirstSearch yields finish[u] > finish[v]
   and order[u] < order[v] for every edge u -> v. *)
DfsTopological ==
    (DfsDone /\ Acyclic(graphs[self])) =>
        \A e \in Edges(graphs[self]) :
            /\ data[e[1]].finish > data[e[2]].finish
            /\ data[e[1]].order < data[e[2]].order

DfsTopologicalWitness ==
    /\ DfsDone /\ Acyclic(graphs[self])
    /\ Cardinality(Edges(graphs[self])) = 3
    /\ \E e \in Edges(graphs[self]) : e[1] > e[2]

(* C8: on every graph with n vertices, cyclic or not, the order labels of
   depthFirstSearch are a permutation of 1..n, and a vertex with a larger
   finish time has a smaller label. *)
DfsOrderPermutation ==
    DfsDone =>
        LET n == Size(graphs[self])
        IN /\ DOMAIN data = DOMAIN graphs[self]
           /\ \A v \in DOMAIN data : data[v].order \in 1..n
           /\ \A u, v \in DOMAIN data : u # v => data[u].order # data[v].order
           /\ {data[v].order : v \in DOMAIN data} = 1..n
           /\ \A u, v \in DOMAIN data :
                data[u].finish > data[v].finish => data[u].order < data[v].order

DfsOrderWitness ==
    /\ DfsDone /\ ~Acyclic(graphs[self])
    /\ Size(graphs[self]) = 3
    /\ data[0].order # 1

(* C9: after depthFirstSearch every vertex has discovery < finish and the
   intervals [discovery, finish] of two distinct vertices are nested or
   disjoint, never partially overlapping. *)
DfsParenthesis ==
    DfsDone =>
        /\ \A v \in DOMAIN data : data[v].discovery < data[v].finish
        /\ \A u, v \in DOMAIN data : u # v =>
              \/ data[u].discovery < data[v].discovery /\ data[v].finish < data[u].finish
              \/ data[v].discovery < data[u].discovery /\ data[u].finish < data[v].finish
              \/ data[u].finish < data[v].discovery
              \/ data[v].finish < data[u].discovery

DfsParenthesisWitness ==
    /\ DfsDone
    /\ \E u, v \in DOMAIN data :
          data[u].discovery < data[v].discovery /\ data[v].finish < data[u].finish
    /\ \E u, v \in DOMAIN data : data[u].finish < data[v].discovery

(* C10: a successful removeEdge(u,v) removes exactly the one occurrence of
   v from u's list, keeps the other neighbors of u in their order and leaves
   every other list and the vertex count unchanged; a successful addEdge of
   a new edge appends at the end, so lists stay in insertion order. *)
Without(neighbors, v) == LET Keep(x) == x # v IN SelectSeq(neighbors, Keep)

RemoveEdgeFrame ==
    /\ [][(op' = "removeEdge" /\ outcome' = "ok") =>
            LET t == self'
                u == args'[1]
                v == args'[2]
            IN /\ Len(graphs') = Len(graphs)
               /\ DOMAIN graphs'[t] = DOMAIN graphs[t]
               /\ Len(graphs'[t][u]) = Len(graphs[t][u]) - 1
               /\ graphs'[t][u] = Without(graphs[t][u], v)
               /\ \A w \in DOMAIN graphs[t] : w # u => graphs'[t][w] = graphs[t][w]]_vars
    /\ [][(op' = "addEdge" /\ outcome' = "ok" /\ graphs' # graphs) =>
            LET t == self'
                u == args'[1]
                v == args'[2]
            IN /\ DOMAIN graphs'[t] = DOMAIN graphs[t]
               /\ graphs'[t][u] = Append(graphs[t][u], v)
               /\ \A w \in DOMAIN graphs[t] : w # u => graphs'[t][w] = graphs[t][w]]_vars

RemoveEdgeFrameWitness ==
    /\ op = "removeEdge" /\ outcome = "ok"
    /\ Len(graphs[self][args[1]]) = 2
    /\ graphs[self][args[1]][1] > graphs[self][args[1]][2]

(* C11: depthFirstSearch visits every vertex exactly once, restarting from
   the lowest-index unvisited vertex; the 2n discovery and finish stamps are
   pairwise distinct and are exactly 1..2n; for n = 0 the result is empty. *)
Stamps(d) == {d[v].discovery : v \in DOMAIN d} \cup {d[v].finish : v \in DOMAIN d}

Roots(d) == {v \in DOMAIN d : d[v].parent = -1}

DfsCoversAll ==
    DfsDone =>
        LET adj == graphs[self]
            n == Size(adj)
        IN /\ DOMAIN data = DOMAIN adj
           /\ n = 0 => data = << >>
           /\ \A v \in DOMAIN data : data[v].visited
           /\ Stamps(data) = 1..(2 * n)
           /\ \A u, v \in DOMAIN data :
                /\ data[u].discovery # data[v].finish
                /\ u # v => /\ data[u].discovery # data[v].discovery
                            /\ data[u].finish # data[v].finish
           \* a vertex that is not a root was entered once, from its parent, along an edge
           /\ \A v \in DOMAIN data \ Roots(data) :
                /\ <<data[v].parent, v>> \in Edges(adj)
                /\ data[data[v].parent].discovery < data[v].discovery
                /\ data[v].finish < data[data[v].parent].finish
           \* a root is the lowest-index vertex not visited when its tree starts
           /\ \A r \in Roots(data) :
                /\ \A v \in DOMAIN data : v < r => data[v].discovery < data[r].discovery
                /\ \A q \in Roots(data) : q < r => data[q].finish < data[r].discovery
                /\ \A v \in DOMAIN data : data[v].discovery < data[r].discovery
                                            => r \notin Reachable(adj, v)

DfsCoversAllWitness ==
    /\ DfsDone
    /\ Size(graphs[self]) = 3
    /\ Cardinality(Roots(data)) = 2
    /\ data[0].finish = 2
    /\ data[2].parent = 1
====
